---- MODULE Spec2Model ----
(***************************************************************************)
(* Model of the adaptive-RAG workflow graph (src/src/workflow/graph.py)    *)
(* and of its nodes.  The graph state is a dictionary; a node returns a    *)
(* dictionary of updates that the graph merges into the state, and the     *)
(* edge function that follows the node then picks the next node.           *)
(***************************************************************************)
EXTENDS Integers, Sequences, FiniteSets, TLC

VARIABLES
    state,      \* the GraphState dictionary (only the keys written so far)
    node,       \* the node the graph executes next
    trace,      \* history: the nodes executed so far, in order
    calls,      \* history: the external calls of the last step, in order
    prev,       \* history: the GraphState before the last step
    decision,   \* history: what the last edge function returned
    verdicts,   \* history: one record per GENERATE, what was graded and how
    raised      \* the external call whose exception ended the run, or "none"

vars == <<state, node, trace, calls, prev, decision, verdicts, raised>>

-----------------------------------------------------------------------------
(* Bounds *)

MaxSteps == 6          \* node executions in one traversal
MaxRetrieved == 2      \* documents the retriever returns

(* Input domains *)

Questions == {"q1", "q2"}
DocTexts == {"d1", "d2"}
Snippets == {"s1", "s2"}
Generations == {"g1", "g2"}

-----------------------------------------------------------------------------
(* Node names and the graph's wiring *)

RETRIEVE == "retrieve"
GRADE_DOCUMENTS == "grade_documents"
GENERATE == "generate"
WEBSEARCH == "websearch"
START == "__start__"
END == "__end__"
ERROR == "__error__"

NodeNames == {RETRIEVE, GRADE_DOCUMENTS, GENERATE, WEBSEARCH}

EntryBranches == (WEBSEARCH :> WEBSEARCH) @@ (RETRIEVE :> RETRIEVE)

GradeDocumentsBranches == (WEBSEARCH :> WEBSEARCH) @@ (GENERATE :> GENERATE)

GenerateBranches ==
    ("not supported" :> GENERATE) @@ ("useful" :> END) @@ ("not useful" :> WEBSEARCH)

\* variant: the web search wired back to the retriever
DirectEdges_rewired == (RETRIEVE :> GRADE_DOCUMENTS) @@ (WEBSEARCH :> RETRIEVE)

\* variant: the web search wired to the document grading
DirectEdges_regrade == (RETRIEVE :> GRADE_DOCUMENTS) @@ (WEBSEARCH :> GRADE_DOCUMENTS)

DirectEdges == (RETRIEVE :> GRADE_DOCUMENTS) @@ (WEBSEARCH :> GENERATE)

-----------------------------------------------------------------------------
(* What the external services answer *)

max_results == 3

RouterLabels == {"vectorstore", "websearch"}
RelevanceScores == {"yes", "no"}
HallucinationScores == {"yes", "no"}
AnswerScores == {"yes", "no"}

SeqsUpTo(S, n) == UNION {[1..k -> S] : k \in 0..n}

Document(text) == [page_content |-> text]

RetrieverResults == SeqsUpTo({Document(t) : t \in DocTexts}, MaxRetrieved)

TavilyResults == SeqsUpTo({[content |-> s] : s \in Snippets}, max_results)

Call(c, r) == [callee |-> c, result |-> r]

-----------------------------------------------------------------------------
(* Python semantics the code relies on *)

\* bool(s) of a str: every non-empty string is true
TruthyStr(s) == s # ""

\* bool(l) of a list: every non-empty list is true
TruthyList(l) == Len(l) > 0

\* d.get(key, default)
Get(d, key, default) == IF key \in DOMAIN d THEN d[key] ELSE default

\* sep.join(strs)
RECURSIVE Join(_, _)
Join(strs, sep) ==
    IF Len(strs) = 0 THEN ""
    ELSE IF Len(strs) = 1 THEN strs[1]
    ELSE strs[1] \o sep \o Join(Tail(strs), sep)

\* the graph merges a node's update into the state, key by key
Merge(s, update) == update @@ s

-----------------------------------------------------------------------------
(* Edge functions *)

\* variant: the two branches swapped
decide_to_generate_swapped(s) == IF s.web_search THEN GENERATE ELSE WEBSEARCH

\* variant: the flag is ignored
decide_to_generate_always(s) == GENERATE

decide_to_generate(s) == IF s.web_search THEN WEBSEARCH ELSE GENERATE

\* hscore, ascore: the answers of the two graders; the answer grader is only
\* asked when the hallucination grader's score is true as a Python value
grade_generation(hscore, ascore) ==
    IF TruthyStr(hscore)
    THEN IF TruthyStr(ascore) THEN "useful" ELSE "not useful"
    ELSE "not supported"

grade_generation_calls(hscore, ascore) ==
    <<Call("hallucination_grader", hscore)>>
    \o (IF TruthyStr(hscore) THEN <<Call("answer_grader", ascore)>> ELSE <<>>)

\* variant: the comparison made against the other label
route_question_vectorstore(datasource) ==
    IF datasource = "vectorstore" THEN WEBSEARCH ELSE RETRIEVE

route_question(datasource) == IF datasource = WEBSEARCH THEN WEBSEARCH ELSE RETRIEVE

-----------------------------------------------------------------------------
(* Nodes: each returns the update dictionary *)

retrieve(s, retrieved) == [documents |-> retrieved, question |-> s.question]

\* variant: the new document replaces the evidence set
web_search_replace(s, tavily_results) ==
    LET joined_tavily_result ==
            Join([i \in 1..Len(tavily_results) |-> tavily_results[i].content], "\n")
    IN  [documents |-> <<Document(joined_tavily_result)>>, question |-> s.question]

\* variant: the new document is put first
web_search_prepend(s, tavily_results) ==
    LET joined_tavily_result ==
            Join([i \in 1..Len(tavily_results) |-> tavily_results[i].content], "\n")
    IN  [documents |-> <<Document(joined_tavily_result)>>
                       \o Get(s, "documents", <<>>),
         question |-> s.question]

\* variant: the results are joined last to first
web_search_reversed(s, tavily_results) ==
    LET n == Len(tavily_results)
        joined_tavily_result ==
            Join([i \in 1..n |-> tavily_results[n + 1 - i].content], "\n")
    IN  [documents |-> Get(s, "documents", <<>>)
                       \o <<Document(joined_tavily_result)>>,
         question |-> s.question]

\* variant: the search also resets the web-search flag
web_search_clears_flag(s, tavily_results) ==
    LET joined_tavily_result ==
            Join([i \in 1..Len(tavily_results) |-> tavily_results[i].content], "\n")
    IN  [documents |-> Get(s, "documents", <<>>)
                       \o <<Document(joined_tavily_result)>>,
         question |-> s.question, web_search |-> FALSE]

web_search(s, tavily_results) ==
    LET question == s.question
        documents == Get(s, "documents", <<>>)
        joined_tavily_result ==
            Join([i \in 1..Len(tavily_results) |-> tavily_results[i].content], "\n")
        web_results == Document(joined_tavily_result)
    IN  [documents |-> IF TruthyList(documents)
                       THEN Append(documents, web_results)
                       ELSE <<web_results>>,
         question |-> question]

\* variant: the generation returned under the question key as well
generate_swapped(s, generation) ==
    [documents |-> s.documents, question |-> generation, generation |-> generation]

\* variant: only the first document is kept as context
generate_first_document(s, generation) ==
    [documents |-> SubSeq(s.documents, 1, 1), question |-> s.question,
     generation |-> generation]

generate(s, generation) ==
    [documents |-> s.documents, question |-> s.question, generation |-> generation]

RECURSIVE FilterRelevant(_, _)
FilterRelevant(documents, scores) ==
    IF Len(documents) = 0 THEN <<>>
    ELSE (IF scores[1] = "yes" THEN <<documents[1]>> ELSE <<>>)
         \o FilterRelevant(Tail(documents), Tail(scores))

\* variant: the flag is raised only by a document graded not relevant
grade_documents_dropped_only(s, scores) ==
    [documents |-> FilterRelevant(s.documents, scores), question |-> s.question,
     web_search |-> \E i \in 1..Len(scores) : scores[i] # "yes"]

grade_documents(s, scores) ==
    LET filtered_docs == FilterRelevant(s.documents, scores)
        web_search_flag ==
            \/ Len(filtered_docs) = 0
            \/ \E i \in 1..Len(scores) : scores[i] # "yes"
    IN  [documents |-> filtered_docs, question |-> s.question,
         web_search |-> web_search_flag]

-----------------------------------------------------------------------------
(* The graph run *)

Init ==
    /\ state \in {[question |-> q] : q \in Questions}
    /\ node = START
    /\ trace = <<>>
    /\ calls = <<>>
    /\ prev = state
    /\ decision = "none"
    /\ verdicts = <<>>
    /\ raised = "none"

\* entry: the router's label picks the first node
Route ==
    /\ node = START
    /\ \E datasource \in RouterLabels :
        /\ decision' = route_question(datasource)
        /\ calls' = <<Call("question_router", datasource)>>
    /\ node' = EntryBranches[decision']
    /\ prev' = state
    /\ UNCHANGED <<state, trace, verdicts, raised>>

Retrieve ==
    /\ node = RETRIEVE
    /\ Len(trace) < MaxSteps
    /\ \E retrieved \in RetrieverResults :
        /\ state' = Merge(state, retrieve(state, retrieved))
        /\ calls' = <<Call("retriever", retrieved)>>
    /\ node' = DirectEdges[RETRIEVE]
    /\ decision' = "none"
    /\ trace' = Append(trace, RETRIEVE)
    /\ prev' = state
    /\ UNCHANGED <<verdicts, raised>>

GradeDocuments ==
    /\ node = GRADE_DOCUMENTS
    /\ Len(trace) < MaxSteps
    /\ \E scores \in [1..Len(state.documents) -> RelevanceScores] :
        /\ state' = Merge(state, grade_documents(state, scores))
        /\ calls' = [i \in 1..Len(scores) |-> Call("retrieval_grader", scores[i])]
    /\ decision' = decide_to_generate(state')
    /\ node' = GradeDocumentsBranches[decision']
    /\ trace' = Append(trace, GRADE_DOCUMENTS)
    /\ prev' = state
    /\ UNCHANGED <<verdicts, raised>>

WebSearch ==
    /\ node = WEBSEARCH
    /\ Len(trace) < MaxSteps
    /\ \E tavily_results \in TavilyResults :
        /\ state' = Merge(state, web_search(state, tavily_results))
        /\ calls' = <<Call("web_search_tool", tavily_results)>>
    /\ node' = DirectEdges[WEBSEARCH]
    /\ decision' = "none"
    /\ trace' = Append(trace, WEBSEARCH)
    /\ prev' = state
    /\ UNCHANGED <<verdicts, raised>>

Generate ==
    /\ node = GENERATE
    /\ Len(trace) < MaxSteps
    /\ \E generation \in Generations, hscore \in HallucinationScores,
          ascore \in AnswerScores :
        /\ state' = Merge(state, generate(state, generation))
        /\ decision' = grade_generation(hscore, ascore)
        /\ calls' = <<Call("generation_chain", generation)>>
                    \o grade_generation_calls(hscore, ascore)
        /\ verdicts' = Append(verdicts,
                [question |-> state'.question, documents |-> state'.documents,
                 generation |-> state'.generation, hallucination |-> hscore,
                 answer |-> IF TruthyStr(hscore) THEN ascore ELSE "none"])
    /\ node' = GenerateBranches[decision']
    /\ trace' = Append(trace, GENERATE)
    /\ prev' = state
    /\ UNCHANGED raised

Next == Route \/ Retrieve \/ GradeDocuments \/ WebSearch \/ Generate

Spec == Init /\ [][Next]_vars

-----------------------------------------------------------------------------
(* The graph run when an external call may raise *)

\* the external calls the step at node n makes in state s
ExternalCalls(n, s) ==
    CASE n = START -> {"question_router"}
      [] n = RETRIEVE -> {"retriever"}
      [] n = GRADE_DOCUMENTS ->
            IF Len(s.documents) > 0 THEN {"retrieval_grader"} ELSE {}
      [] n = WEBSEARCH -> {"web_search_tool"}
      [] n = GENERATE ->
            {"generation_chain", "hallucination_grader"}
            \cup (IF \E hscore \in HallucinationScores : TruthyStr(hscore)
                  THEN {"answer_grader"} ELSE {})
      [] OTHER -> {}

\* variant: the step that raised is run again
on_exception_retry(n) == n

\* no caller catches: the exception leaves the node, the graph and invoke
on_exception(n) == ERROR

\* an external call of the current step raises; the step's update is lost
Raise ==
    /\ node \in NodeNames \cup {START}
    /\ node \in NodeNames => Len(trace) < MaxSteps
    /\ \E callee \in ExternalCalls(node, state) : raised' = callee
    /\ node' = on_exception(node)
    /\ UNCHANGED <<state, trace, calls, prev, decision, verdicts>>

NextRaise == Next \/ Raise

SpecRaise == Init /\ [][NextRaise]_vars

-----------------------------------------------------------------------------
(* Helpers for the properties *)

LastNode == IF trace = <<>> THEN START ELSE trace[Len(trace)]

HasDocuments(s) == "documents" \in DOMAIN s

IsPrefix(a, b) == Len(a) <= Len(b) /\ SubSeq(b, 1, Len(a)) = a

\* a is b with some elements left out, the others in the same order
IsSubseq(a, b) ==
    \E f \in [1..Len(a) -> 1..Len(b)] :
        /\ \A i \in 1..Len(a) : a[i] = b[f[i]]
        /\ \A i, j \in 1..Len(a) : i < j => f[i] < f[j]

\* after GENERATE, calls = <<generation, hallucination grader, [answer grader]>>
HallucinationScore == calls[2].result
AnswerAsked == Len(calls) = 3
AnswerScore == calls[3].result

\* every edge the graph is built with, as <<from, to>>
GraphEdges ==
    {<<START, EntryBranches[k]>> : k \in DOMAIN EntryBranches}
    \cup {<<n, DirectEdges[n]>> : n \in DOMAIN DirectEdges}
    \cup {<<GRADE_DOCUMENTS, GradeDocumentsBranches[k]>> : k \in DOMAIN GradeDocumentsBranches}
    \cup {<<GENERATE, GenerateBranches[k]>> : k \in DOMAIN GenerateBranches}

GraphNodes == {e[1] : e \in GraphEdges} \cup {e[2] : e \in GraphEdges}

RECURSIVE ReachableIn(_, _)
ReachableIn(from, k) ==
    IF k = 0 THEN from
    ELSE LET r == ReachableIn(from, k - 1)
         IN  r \cup {e[2] : e \in {d \in GraphEdges : d[1] \in r}}

\* the nodes reachable from n by a path of at least one edge
Successors(n) ==
    ReachableIn({e[2] : e \in {d \in GraphEdges : d[1] = n}}, Cardinality(GraphNodes))

OnCycle == {n \in GraphNodes : n \in Successors(n)}

-----------------------------------------------------------------------------
(* C1: after GENERATE, a hallucination-grader verdict "no" gives the       *)
(* outcome "not supported" and GENERATE is the next node executed.         *)
C1_NotSupportedRegenerates ==
    (LastNode = GENERATE /\ HallucinationScore = "no")
        => (decision = "not supported" /\ node = GENERATE)

(* C2: the run reaches END only right after a GENERATE whose generation    *)
(* got "yes" from the hallucination grader and "yes" from the answer       *)
(* grader; in END neither grader's last verdict is "no".                   *)
C2_AcceptOnlyWhenBothYes ==
    node = END
        => /\ LastNode = GENERATE
           /\ HallucinationScore = "yes"
           /\ AnswerAsked
           /\ AnswerScore = "yes"

(* C3: after GENERATE, hallucination verdict "yes" and answer verdict "no" *)
(* give the outcome "not useful" and WEBSEARCH is the next node executed.  *)
C3_NotUsefulSearches ==
    (LastNode = GENERATE /\ HallucinationScore = "yes"
        /\ AnswerAsked /\ AnswerScore = "no")
        => (decision = "not useful" /\ node = WEBSEARCH)

(* C4: the first node executed is WEBSEARCH when the router's label is     *)
(* "websearch" and RETRIEVE for every other label; nothing else is first.  *)
C4_EntryRouting ==
    [][(Len(trace) = 0 /\ Len(trace') = 1)
        => /\ calls[1].callee = "question_router"
           /\ trace'[1] = (IF calls[1].result = "websearch"
                           THEN WEBSEARCH ELSE RETRIEVE)]_vars

C4_Witness == trace = <<WEBSEARCH>> /\ ~HasDocuments(prev)

(* C5: after GRADE_DOCUMENTS the next node is WEBSEARCH when the           *)
(* web-search flag is true and GENERATE when it is false, whatever the     *)
(* other fields of the state hold.                                         *)
C5_DecideByFlagOnly ==
    LastNode = GRADE_DOCUMENTS
        => /\ node = (IF state.web_search THEN WEBSEARCH ELSE GENERATE)
           /\ \A q \in Questions, docs \in RetrieverResults, g \in Generations :
                decide_to_generate([question |-> q, documents |-> docs,
                                    generation |-> g,
                                    web_search |-> state.web_search]) = node

C5_Witness ==
    /\ LastNode = GRADE_DOCUMENTS
    /\ state.web_search
    /\ Len(state.documents) = 1
    /\ node = WEBSEARCH

(* C6: RETRIEVE is always followed at once by GRADE_DOCUMENTS and          *)
(* WEBSEARCH by GENERATE; the nodes are RETRIEVE, GRADE_DOCUMENTS,         *)
(* GENERATE and WEBSEARCH, and the only cycles of the graph are the        *)
(* GENERATE self-loop and the WEBSEARCH/GENERATE cycle.                    *)
C6_GraphShape ==
    /\ \A i \in 1..Len(trace) : trace[i] \in NodeNames
    /\ \A i \in 1..(Len(trace) - 1) :
        /\ trace[i] = RETRIEVE => trace[i + 1] = GRADE_DOCUMENTS
        /\ trace[i] = WEBSEARCH => trace[i + 1] = GENERATE
    /\ LastNode = RETRIEVE => node = GRADE_DOCUMENTS
    /\ LastNode = WEBSEARCH => node = GENERATE
    /\ node \in NodeNames \cup {START, END}
    /\ GraphNodes = NodeNames \cup {START, END}
    /\ OnCycle = {GENERATE, WEBSEARCH}
    /\ {e \in GraphEdges : e[1] \in OnCycle /\ e[2] \in OnCycle}
        = {<<GENERATE, GENERATE>>, <<GENERATE, WEBSEARCH>>, <<WEBSEARCH, GENERATE>>}
    /\ \A i, j \in 1..Len(trace) :
        (i < j /\ trace[i] = trace[j]) => trace[i] \in {GENERATE, WEBSEARCH}

C6_Witness == trace = <<RETRIEVE, GRADE_DOCUMENTS, WEBSEARCH, GENERATE>>

(* C7: WEBSEARCH leaves the evidence set one longer, the prior documents   *)
(* as its prefix and the new synthetic document last, also with no prior   *)
(* documents and with zero search results.                                 *)
C7_WebSearchAppendsOne ==
    LastNode = WEBSEARCH
        => LET old == Get(prev, "documents", <<>>)
               new == state.documents
               results == calls[1].result
           IN  /\ Len(new) = Len(old) + 1
               /\ \A i \in 1..Len(old) : new[i] = old[i]
               /\ new[Len(new)] = Document(
                    Join([i \in 1..Len(results) |-> results[i].content], "\n"))
               /\ (~HasDocuments(prev)) => Len(new) = 1
               /\ results = <<>> => new[Len(new)] = Document("")

C7_Witness ==
    /\ LastNode = WEBSEARCH
    /\ HasDocuments(prev)
    /\ Len(prev.documents) = 1
    /\ calls[1].result = <<>>
    /\ Len(state.documents) = 2

(* C8 as stated: once the evidence set is non-empty, every step's evidence *)
(* set has the previous one as a prefix.                                   *)
C8_EveryStepExtends ==
    (HasDocuments(prev) /\ Len(prev.documents) > 0)
        => IsPrefix(prev.documents, state.documents)

(* C8 amended: every WEBSEARCH and every GENERATE leaves the previous       *)
(* evidence set as a prefix of the new one; GRADE_DOCUMENTS may leave      *)
(* documents out and keeps the others in their order; RETRIEVE runs only   *)
(* while the state has no evidence set yet.                                *)
C8_ExtendsExceptGrading ==
    /\ LastNode \in {WEBSEARCH, GENERATE}
        => IsPrefix(Get(prev, "documents", <<>>), state.documents)
    /\ LastNode = GRADE_DOCUMENTS
        => IsSubseq(state.documents, prev.documents)
    /\ LastNode = RETRIEVE => ~HasDocuments(prev)

C8_Witness ==
    /\ trace = <<RETRIEVE, GRADE_DOCUMENTS, WEBSEARCH, GENERATE>>
    /\ Len(prev.documents) = 2
    /\ state.documents = prev.documents

(* C9: GRADE_DOCUMENTS outputs exactly the input documents graded "yes",   *)
(* in their order; the flag is true when none remains or one was graded    *)
(* "no", and false exactly when the input is non-empty and all are "yes".  *)
C9_GradeDocumentsContract ==
    LastNode = GRADE_DOCUMENTS
        => LET input == prev.documents
               out == state.documents
               yes == {i \in 1..Len(input) : calls[i].result = "yes"}
               anyNo == \E i \in 1..Len(input) : calls[i].result = "no"
           IN  /\ Len(calls) = Len(input)
               /\ Len(out) = Cardinality(yes)
               /\ \A i \in yes : out[Cardinality({j \in yes : j <= i})] = input[i]
               /\ (Len(out) = 0 \/ anyNo) => state.web_search
               /\ (~state.web_search) <=> (Len(input) > 0 /\ ~anyNo)

C9_Witness ==
    /\ LastNode = GRADE_DOCUMENTS
    /\ Len(prev.documents) = 2
    /\ calls[1].result = "no"
    /\ calls[2].result = "yes"
    /\ state.documents = <<prev.documents[2]>>
    /\ state.web_search

(* C10: the question of the graph state never changes: every step of the   *)
(* run, node and edge decision together, leaves it as it was at entry.     *)
C10_QuestionNeverChanges ==
    [][/\ "question" \in DOMAIN state'
       /\ state'.question = state.question]_vars

C10_Witness ==
    /\ trace = <<RETRIEVE, GRADE_DOCUMENTS, WEBSEARCH, GENERATE>>
    /\ node = END
    /\ state.question = "q2"

(* C11: there is no iteration cap: while the hallucination grader keeps     *)
(* answering "no", or the answer grader keeps answering "no", the run      *)
(* keeps executing GENERATE (WEBSEARCH then GENERATE) and never reaches    *)
(* END; so a run that is in END has had a verdict other than these.        *)
C11_RejectedRunNeverAccepts ==
    node = END
        => /\ ~(\A i \in 1..Len(verdicts) : verdicts[i].hallucination = "no")
           /\ ~(\A i \in 1..Len(verdicts) :
                    /\ verdicts[i].hallucination = "yes"
                    /\ verdicts[i].answer = "no")

(* C12: an exception raised by any external call ends the traversal in an  *)
(* error: the call is not retried, no further node executes and END is     *)
(* never reached.                                                          *)
C12_ExceptionEndsRun ==
    /\ [](raised # "none" => node = ERROR)
    /\ [][raised = "none" /\ node # ERROR]_vars

C12_Witness ==
    /\ raised = "answer_grader"
    /\ node = ERROR
    /\ trace = <<RETRIEVE, GRADE_DOCUMENTS, WEBSEARCH>>

\* the state s with the web-search flag set to b
WithFlag(s, b) == [web_search |-> b] @@ s

(* C13: the web-search flag is read once at most, by decide_to_generate    *)
(* after the one GRADE_DOCUMENTS; WEBSEARCH, GENERATE and the grading of   *)
(* the generation neither change it nor depend on it.                      *)
C13_FlagUsedOnce ==
    /\ Cardinality({i \in 1..Len(trace) : trace[i] = GRADE_DOCUMENTS}) <= 1
    /\ LastNode \in {WEBSEARCH, GENERATE}
        => /\ ("web_search" \in DOMAIN state) = ("web_search" \in DOMAIN prev)
           /\ "web_search" \in DOMAIN prev => state.web_search = prev.web_search
    /\ LastNode = WEBSEARCH
        => \A b \in BOOLEAN :
            /\ web_search(WithFlag(prev, b), calls[1].result)
                = web_search(prev, calls[1].result)
            /\ node = GENERATE
    /\ LastNode = GENERATE
        => \A b \in BOOLEAN :
            generate(WithFlag(prev, b), calls[1].result)
                = generate(prev, calls[1].result)

C13_Witness ==
    /\ trace = <<RETRIEVE, GRADE_DOCUMENTS, WEBSEARCH, GENERATE>>
    /\ state.web_search
    /\ prev.web_search
    /\ node = END

(* C14: at every GENERATE the hallucination grader is called exactly once, *)
(* before the answer grader; the answer grader is called at most once and  *)
(* only when the hallucination grader's verdict was "yes" (supported).     *)
C14_AnswerGraderOnlyWhenSupported ==
    LastNode = GENERATE
        => /\ Len(calls) \in {2, 3}
           /\ calls[1].callee = "generation_chain"
           /\ calls[2].callee = "hallucination_grader"
           /\ Cardinality({i \in 1..Len(calls) :
                            calls[i].callee = "hallucination_grader"}) = 1
           /\ Cardinality({i \in 1..Len(calls) :
                            calls[i].callee = "answer_grader"}) <= 1
           /\ \A i \in 1..Len(calls) :
                calls[i].callee = "answer_grader"
                    => (i > 2 /\ HallucinationScore = "yes")

(* C15: GENERATE writes the generation and nothing else: the evidence set, *)
(* the question and the web-search flag are after it what they were        *)
(* before it.                                                              *)
C15_GenerateWritesGenerationOnly ==
    LastNode = GENERATE
        => /\ DOMAIN state = DOMAIN prev \cup {"generation"}
           /\ state.documents = prev.documents
           /\ state.question = prev.question
           /\ "web_search" \in DOMAIN prev => state.web_search = prev.web_search
           /\ state.generation = calls[1].result

C15_Witness ==
    /\ LastNode = GENERATE
    /\ "web_search" \in DOMAIN state
    /\ ~state.web_search
    /\ Len(state.documents) = 2
    /\ state.generation = "g2"

(* C16: the document WEBSEARCH appends has as content the texts of the     *)
(* search results, in the order returned, with one newline between         *)
(* neighbours, for 0 to 3 results; the empty list gives empty content.     *)
C16_ContentIsJoinedResults ==
    LastNode = WEBSEARCH
        => LET r == calls[1].result
               c == state.documents[Len(state.documents)].page_content
           IN  /\ Len(r) <= max_results
               /\ Len(r) = 0 => c = ""
               /\ Len(r) = 1 => c = r[1].content
               /\ Len(r) = 2 => c = r[1].content \o "\n" \o r[2].content
               /\ Len(r) = 3 => c = r[1].content \o "\n" \o r[2].content
                                    \o "\n" \o r[3].content

C16_Witness ==
    /\ LastNode = WEBSEARCH
    /\ Len(calls[1].result) = 3
    /\ state.documents[Len(state.documents)].page_content = "s1\ns2\ns1"

(* C17: GENERATE never starts with an empty evidence set, whichever way    *)
(* the run came: straight from WEBSEARCH or through RETRIEVE and           *)
(* GRADE_DOCUMENTS, also when nothing was retrieved or nothing kept.       *)
C17_GenerateHasEvidence ==
    /\ node = GENERATE
        => (HasDocuments(state) /\ Len(state.documents) >= 1)
    /\ LastNode = GENERATE
        => (HasDocuments(prev) /\ Len(prev.documents) >= 1)

C17_Witness ==
    /\ node = GENERATE
    /\ trace = <<RETRIEVE, GRADE_DOCUMENTS, WEBSEARCH>>
    /\ prev.documents = <<>>
    /\ Len(state.documents) = 1

(* C18: RETRIEVE and GRADE_DOCUMENTS each run once at most and only before *)
(* the first GENERATE; so GRADE_DOCUMENTS never runs after a WEBSEARCH and *)
(* never grades or removes a document the web search added.                *)
C18_RetrieveAndGradeOnce ==
    /\ \A n \in {RETRIEVE, GRADE_DOCUMENTS} :
        /\ Cardinality({i \in 1..Len(trace) : trace[i] = n}) <= 1
        /\ \A i, j \in 1..Len(trace) :
            (i < j /\ trace[i] \in {GENERATE, WEBSEARCH}) => trace[j] # n
        /\ n \notin Successors(GENERATE)
        /\ n \notin Successors(WEBSEARCH)
        /\ n \notin Successors(n)
    /\ node \in {RETRIEVE, GRADE_DOCUMENTS}
        => \A i \in 1..Len(trace) : trace[i] \notin {GENERATE, WEBSEARCH}
    /\ LastNode = GRADE_DOCUMENTS
        => /\ \A i \in 1..Len(trace) : trace[i] # WEBSEARCH
           /\ \A i \in 1..Len(prev.documents) :
                prev.documents[i].page_content \in DocTexts

C18_Witness ==
    /\ trace = <<RETRIEVE, GRADE_DOCUMENTS, WEBSEARCH, GENERATE>>
    /\ Len(state.documents) = 2
    /\ state.documents[1].page_content \in DocTexts
    /\ state.documents[2].page_content \notin DocTexts

\* the run so far is one a deterministic generator and a deterministic
\* hallucination grader can produce: equal inputs got equal answers
Deterministic ==
    \A i, j \in 1..Len(verdicts) :
        /\ (verdicts[i].question = verdicts[j].question
                /\ verdicts[i].documents = verdicts[j].documents)
            => verdicts[i].generation = verdicts[j].generation
        /\ (verdicts[i].documents = verdicts[j].documents
                /\ verdicts[i].generation = verdicts[j].generation)
            => verdicts[i].hallucination = verdicts[j].hallucination

\* the place in trace of the k-th GENERATE
GeneratePosition(k) ==
    CHOOSE p \in 1..Len(trace) :
        /\ trace[p] = GENERATE
        /\ Cardinality({q \in 1..p : trace[q] = GENERATE}) = k

(* C19: with a deterministic generator and hallucination grader, once the  *)
(* hallucination grader has answered "no" the run only executes GENERATE   *)
(* from then on: GENERATE is next again, and neither WEBSEARCH nor END is  *)
(* ever reached.                                                           *)
C19_RejectedOnceLoopsForever ==
    (Deterministic /\ \E k \in 1..Len(verdicts) : verdicts[k].hallucination = "no")
        => LET k == CHOOSE i \in 1..Len(verdicts) : verdicts[i].hallucination = "no"
           IN  /\ node = GENERATE
               /\ \A p \in 1..Len(trace) :
                    p > GeneratePosition(k) => trace[p] = GENERATE

====
